---- MODULE Spec2Model ----
(***************************************************************************)
(* Task execution engine of the article screening backend.                 *)
(*                                                                         *)
(* One task document, its article collection and its screening_results     *)
(* collection, shared by NumWorkers worker processes (worker/worker.py,     *)
(* worker/tasks.py) and by the handlers of the control API                  *)
(* (api/routes/tasks.py).  Every step is one awaited store operation of    *)
(* the source: the store is atomic per document operation and the          *)
(* coroutines interleave between awaits.                                   *)
(***************************************************************************)
EXTENDS Integers, FiniteSets, Sequences, TLC

\* ---------------------------------------------------------------- bounds
NumWorkers == 2
MaxArticles == 4

\* ------------------------------------------------------ program constants
\* settings.ARTICLE_LIMIT is read from the environment (config.py:47); the
\* model runs the engine with the limit configured to 3.
ARTICLE_LIMIT == 3
BATCH_SIZE == 2
MAX_RETRIES == 2

Workers == 1..NumWorkers
NoLock == 0

Min(a, b) == IF a < b THEN a ELSE b
MinOf(S) == CHOOSE x \in S : \A y \in S : x <= y

\* Error strings stored in task.error
ErrNone == "none"
ErrCancelled == "Task cancelled by user"
ErrNoArticles == "No articles found for task"
ErrBatch == "batch error"
ErrAttach == "attach error"

VARIABLES
    task,        \* the task document (status "none": not created yet)
    articles,    \* number of article documents of the task, ids 1..articles
    results,     \* article ids that have a screening_results document
    pc,          \* per worker: position in Worker.start / TaskProcessor.process
    loc,         \* per worker: locals of TaskProcessor.process
    attachCall,  \* start_screening handler in flight
    cancelCall,  \* cancel_task handler in flight
    rfsCall,     \* request_full_screening handler in flight
    getCall,     \* get_task handler in flight
    hist,        \* history (ghost) variables read only by the properties
    normPc,      \* position of one LLM record on its way to screening_results
    normRec,     \* that record: included, reason, relevanceScore
    llm,         \* one LLMService instance and its generate_response call
    svc,         \* one LLMService instance shared by concurrent callers
    coll,        \* screening_results documents of one (taskId, articleId)
    stop,        \* Worker.stop of worker 1 and TaskProcessor._cancelled
    pt           \* a call of ScreeningService.process_task

vars == <<task, articles, results, pc, loc, attachCall, cancelCall, rfsCall, getCall,
          hist, normPc, normRec, llm, svc, coll, stop, pt>>

\* ------------------------------------------------------------ documents
NoTask ==
    [status |-> "none", cur |-> 0, total |-> 0, error |-> ErrNone,
     completedAt |-> FALSE, lock |-> NoLock, remaining |-> <<"ids", 0>>]

NoLocals ==
    [acq |-> FALSE,    \* acquire_task_lock returned True
     tac |-> 0,        \* total_article_count
     atp |-> 0,        \* articles_to_process = len(articles)
     tp |-> 0,         \* total_processed
     rc |-> 0,         \* retry_count
     truthy |-> FALSE, \* the results dict of the batch is non-empty
     pend |-> {},      \* ids of the batch in results, not yet upserted
     bp |-> 0]         \* batch_processed

IdleAttach == [pc |-> "idle", k |-> 0]
IdleRfs == [pc |-> "idle", cur |-> 0, total |-> 0, k |-> 0]
IdleGet == [pc |-> "idle", cur |-> 0, cnt |-> 0]

NoHist ==
    [cancelled |-> FALSE,      \* cancel_task has succeeded
     cancelledProc |-> FALSE,  \* ... on a task a worker was processing
     inflight |-> [w \in Workers |-> -1], \* batch offset of w at the cancel
     late |-> [w \in Workers |-> {}],     \* ids w upserted after the cancel
     healed |-> FALSE,         \* a get_task ran wholly after the last worker write
     gclean |-> FALSE,         \* no worker write since the running get_task began
     viaRunning |-> FALSE,     \* the task is paused and was running just before
     quiet |-> "no",           \* get_task without a concurrent writer: "open"
                               \* while it runs, "same" / "fixed" once it has
                               \* returned without / with a write, "no" after
                               \* any other write to the task or the results
     bf |-> [w \in Workers |-> -1],  \* failures of the batch w is processing
                               \* in its pass; -1 where it is not recorded
     extra |-> [w \in Workers |-> "off"]]  \* the last LLM response to w held
                               \* ids outside its batch: yes, no; off where
                               \* it is not recorded

\* the per-batch failure count after a failure / at the start of a batch
BatchFailed(h, w) == [h EXCEPT !.bf[w] = IF @ < 0 THEN @ ELSE @ + 1]
BatchBegun(h, w) == [h EXCEPT !.bf[w] = IF @ < 0 THEN @ ELSE 0]

\* A worker operation that changed the task document or the result set is a
\* worker write: it ends "get_task has run after the last worker write".
AfterWorkerWrite(h, t2, r2) ==
    IF t2 # task \/ r2 # results
    THEN [h EXCEPT !.healed = FALSE, !.gclean = FALSE, !.quiet = "no"]
    ELSE h

\* viaRunning follows the status: set by a running -> paused write, cleared
\* when the task leaves paused.
TrackPause(h, t2) ==
    [h EXCEPT !.viaRunning =
        IF t2.status # "paused" THEN FALSE
        ELSE IF task.status = "running" THEN TRUE
        ELSE IF task.status = "paused" THEN h.viaRunning
        ELSE FALSE,
              !.quiet = IF t2 # task THEN "no" ELSE @]

\* ------------------------------------------------ worker/tasks.py helpers
\* acquire_task_lock's filter: status running and processingLock null/absent
CanAcquire ==
    task.status = "running" /\ task.lock = NoLock

\* find_one({_id, processingLock: self._task_lock}) returns a document
HoldsLock(w) ==
    task.status # "none" /\ task.lock = w

\* the batch-boundary checks: the lock is still ours and status is not error
StillProcessableNoStatus(w) ==
    HoldsLock(w)

StillProcessable(w) ==
    HoldsLock(w) /\ task.status # "error"

\* articles[total_processed : total_processed + BATCH_SIZE] of the loaded prefix
Batch(w) ==
    {a \in 1..loc[w].atp : a > loc[w].tp /\ a <= loc[w].tp + BATCH_SIZE}

\* final_status of the finalisation step
FinalStatus(tac, atp) ==
    IF tac - atp > 0 THEN "paused" ELSE "done"

\* the mutant of MarkedError: completedAt is not stamped
MarkedErrorNoStamp(msg) ==
    [task EXCEPT !.status = "error", !.error = msg, !.lock = NoLock]

\* _mark_task_error's update
MarkedError(msg) ==
    [task EXCEPT !.status = "error", !.error = msg, !.completedAt = TRUE,
                 !.lock = NoLock]

\* the mutants of Released: the lock is left as it is; only an own lock is cleared
ReleasedNothing(w) == task

ReleasedOwn(w) == IF task.lock = w THEN [task EXCEPT !.lock = NoLock] ELSE task

\* release_task_lock's update: $unset processingLock, filter on _id only
Released(w) ==
    IF task.status = "none" THEN task ELSE [task EXCEPT !.lock = NoLock]

InLoop(w) == pc[w] \in {"check1", "llm", "check2", "save", "progress"}

ApiUnchanged == UNCHANGED <<attachCall, cancelCall, rfsCall, getCall>>
NormUnchanged == UNCHANGED <<normPc, normRec, llm, svc, coll, stop, pt>>

\* Where the while loop goes next: another batch or the finalisation
LoopTop(tp, atp) == IF tp < atp THEN "check1" ELSE "finalize"

\* --------------------------------------------------- worker/worker.py
\* Worker.start, one iteration: the task is found by the status query and by
\* the status double-check, and process(task_id) is called.
WorkerPoll(w) ==
    /\ pc[w] = "idle"
    /\ task.status \in {"running", "full_screening"}
    /\ pc' = [pc EXCEPT ![w] = "acquire"]
    /\ UNCHANGED <<task, articles, results, loc, hist>>
    /\ NormUnchanged
    /\ ApiUnchanged

\* ---------------------------------------------------- worker/tasks.py
\* process: acquire_task_lock (find_one_and_update); on failure process
\* returns through its finally block.
Acquire(w) ==
    /\ pc[w] = "acquire"
    /\ IF CanAcquire
       THEN /\ task' = [task EXCEPT !.lock = w]
            /\ pc' = [pc EXCEPT ![w] = "load"]
            /\ loc' = [loc EXCEPT ![w] = [NoLocals EXCEPT !.acq = TRUE]]
       ELSE /\ task' = task
            /\ pc' = [pc EXCEPT ![w] = "release"]
            /\ loc' = [loc EXCEPT ![w] = NoLocals]
    /\ hist' = AfterWorkerWrite(BatchBegun(hist, w), task', results)
    /\ UNCHANGED <<articles, results>>
    /\ NormUnchanged
    /\ ApiUnchanged

\* process: reload the task and verify its status
LoadTask(w) ==
    /\ pc[w] = "load"
    /\ pc' = [pc EXCEPT ![w] = IF task.status = "running" THEN "count" ELSE "release"]
    /\ UNCHANGED <<task, articles, results, loc, hist>>
    /\ NormUnchanged
    /\ ApiUnchanged

\* process: count the articles, apply the limit, load the first
\* articles_to_process articles (insertion order)
CountArticles(w) ==
    /\ pc[w] = "count"
    /\ IF articles = 0
       THEN /\ pc' = [pc EXCEPT ![w] = "markNoArt"]
            /\ loc' = loc
       ELSE /\ pc' = [pc EXCEPT ![w] = "setup"]
            /\ loc' = [loc EXCEPT ![w].tac = articles,
                                  ![w].atp = Min(articles, ARTICLE_LIMIT)]
    /\ UNCHANGED <<task, articles, results, hist>>
    /\ NormUnchanged
    /\ ApiUnchanged

\* process: "Update task with correct totals" (filter on _id only)
SetupDoc(w) ==
    [task EXCEPT !.total = loc[w].atp, !.cur = 0,
                 !.remaining = <<"count", loc[w].tac - loc[w].atp>>,
                 !.error = ErrNone]

Setup(w) ==
    /\ pc[w] = "setup"
    /\ task' = SetupDoc(w)
    /\ pc' = [pc EXCEPT ![w] = LoopTop(loc[w].tp, loc[w].atp)]
    /\ hist' = AfterWorkerWrite(hist, task', results)
    /\ UNCHANGED <<articles, results, loc>>
    /\ NormUnchanged
    /\ ApiUnchanged

\* process: "Verify we still hold the lock" at the top of each iteration
Check1(w) ==
    /\ pc[w] = "check1"
    /\ pc' = [pc EXCEPT ![w] = IF StillProcessable(w) THEN "llm" ELSE "release"]
    /\ UNCHANGED <<task, articles, results, loc, hist>>
    /\ NormUnchanged
    /\ ApiUnchanged

\* ids an LLM response can hold besides those of the batch: an id of no
\* article (0) and the ids of the task's other articles
ForeignIds(w) == (0..MaxArticles) \ Batch(w)

\* the mutant of SavedIds: every id of the response is saved
SavedIdsAll(w, R) == R

\* the result save loop: "for article in batch: if article_id in results"
SavedIds(w, R) == {a \in Batch(w) : a \in R}

\* process: await _screen_batch.  The validated response holds decisions
\* for the ids R: some ids of the batch, with or without foreign ids;
\* "if results:" tests whether the dict is empty.  LLMService raises on an
\* empty object ("if not json_data"), which is LlmFail: R is never empty.
LlmAnswer(w) ==
    /\ pc[w] = "llm"
    /\ \E S \in SUBSET Batch(w), F \in {{}, ForeignIds(w)} :
          LET R == S \cup F
          IN /\ R # {}
             /\ loc' = [loc EXCEPT ![w].pend = SavedIds(w, R),
                                   ![w].truthy = (R # {}), ![w].bp = 0]
             /\ hist' = [hist EXCEPT !.extra[w] =
                            IF @ = "off" THEN @ ELSE IF F # {} THEN "yes" ELSE "no"]
    /\ pc' = [pc EXCEPT ![w] = "check2"]
    /\ UNCHANGED <<task, articles, results>>
    /\ NormUnchanged
    /\ ApiUnchanged

\* process: await _screen_batch with an LLM that answers validly: a decision
\* for every article of the batch
LlmAnswerAll(w) ==
    /\ pc[w] = "llm"
    /\ loc' = [loc EXCEPT ![w].pend = Batch(w), ![w].truthy = TRUE, ![w].bp = 0]
    /\ pc' = [pc EXCEPT ![w] = "check2"]
    /\ UNCHANGED <<task, articles, results, hist>>
    /\ NormUnchanged
    /\ ApiUnchanged

\* process: _screen_batch raises (LLM failure, unparseable response): the
\* except branch counts the retry and re-enters the loop, or re-raises into
\* the outer except, which calls _mark_task_error.
LlmFail(w) ==
    /\ pc[w] = "llm"
    /\ loc' = [loc EXCEPT ![w].rc = @ + 1]
    /\ pc' = [pc EXCEPT ![w] = IF loc[w].rc + 1 > MAX_RETRIES THEN "markErr"
                               ELSE LoopTop(loc[w].tp, loc[w].atp)]
    /\ hist' = BatchFailed(hist, w)
    /\ UNCHANGED <<task, articles, results>>
    /\ NormUnchanged
    /\ ApiUnchanged

\* process: "Verify we still hold the lock before saving results"
Check2(w) ==
    /\ pc[w] = "check2"
    /\ IF ~StillProcessable(w)
       THEN /\ pc' = [pc EXCEPT ![w] = "release"]
            /\ loc' = loc
       ELSE IF ~loc[w].truthy          \* if results: is false
       THEN /\ pc' = [pc EXCEPT ![w] = LoopTop(loc[w].tp, loc[w].atp)]
            /\ loc' = loc
       ELSE IF loc[w].pend = {}        \* no article of the batch in results
       THEN /\ pc' = [pc EXCEPT ![w] = "progress"]
            /\ loc' = loc
       ELSE /\ pc' = [pc EXCEPT ![w] = "save"]
            /\ loc' = loc
    /\ UNCHANGED <<task, articles, results, hist>>
    /\ NormUnchanged
    /\ ApiUnchanged

\* process: the result save loop, one upsert per article of the batch that
\* is in results; after the last one total_processed += batch_processed
SaveResult(w) ==
    /\ pc[w] = "save"
    /\ LET a == MinOf(loc[w].pend)
           rest == loc[w].pend \ {a}
       IN /\ results' = results \cup {a}
          /\ loc' = [loc EXCEPT ![w].pend = rest,
                                ![w].bp = IF rest = {} THEN 0 ELSE @ + 1,
                                ![w].tp = IF rest = {} THEN @ + loc[w].bp + 1 ELSE @]
          /\ pc' = [pc EXCEPT ![w] = IF rest = {} THEN "progress" ELSE "save"]
          /\ hist' = AfterWorkerWrite(
                        [(IF rest = {} THEN BatchBegun(hist, w) ELSE hist)
                            EXCEPT !.late[w] = IF hist.cancelled THEN @ \cup {a} ELSE @],
                        task, results')
    /\ UNCHANGED <<task, articles>>
    /\ NormUnchanged
    /\ ApiUnchanged

\* process: "Update task progress with lock check"; modified_count is 0 when
\* no document matches the lock filter or the stored value is already equal
ProgressModified(w) ==
    HoldsLock(w) /\ task.cur # loc[w].tp

UpdateProgress(w) ==
    /\ pc[w] = "progress"
    /\ IF ProgressModified(w)
       THEN /\ task' = [task EXCEPT !.cur = loc[w].tp]
            /\ pc' = [pc EXCEPT ![w] = LoopTop(loc[w].tp, loc[w].atp)]
       ELSE /\ task' = task
            /\ pc' = [pc EXCEPT ![w] = "release"]
    /\ hist' = AfterWorkerWrite(hist, task', results)
    /\ UNCHANGED <<articles, results, loc>>
    /\ NormUnchanged
    /\ ApiUnchanged

\* process: finalisation update, filter {_id, processingLock: own lock}
FinalizedDoc(w) ==
    [task EXCEPT !.status = FinalStatus(loc[w].tac, loc[w].atp),
                 !.completedAt = TRUE,
                 !.cur = loc[w].tp,
                 !.remaining = <<"count", loc[w].tac - loc[w].atp>>,
                 !.lock = NoLock]

Finalize(w) ==
    /\ pc[w] = "finalize"
    /\ task' = IF HoldsLock(w) THEN FinalizedDoc(w) ELSE task
    /\ pc' = [pc EXCEPT ![w] = "release"]
    /\ hist' = AfterWorkerWrite(TrackPause(hist, task'), task', results)
    /\ UNCHANGED <<articles, results, loc>>
    /\ NormUnchanged
    /\ ApiUnchanged

\* process: _mark_task_error("No articles found for task")
MarkNoArticles(w) ==
    /\ pc[w] = "markNoArt"
    /\ task' = MarkedError(ErrNoArticles)
    /\ pc' = [pc EXCEPT ![w] = "release"]
    /\ hist' = AfterWorkerWrite(TrackPause(hist, task'), task', results)
    /\ UNCHANGED <<articles, results, loc>>
    /\ NormUnchanged
    /\ ApiUnchanged

\* process: except Exception -> _mark_task_error(str(e))
MarkBatchError(w) ==
    /\ pc[w] = "markErr"
    /\ task' = MarkedError(ErrBatch)
    /\ pc' = [pc EXCEPT ![w] = "release"]
    /\ hist' = AfterWorkerWrite(TrackPause(hist, task'), task', results)
    /\ UNCHANGED <<articles, results, loc>>
    /\ NormUnchanged
    /\ ApiUnchanged

\* process: finally -> release_task_lock, then process returns to the worker
Release(w) ==
    /\ pc[w] = "release"
    /\ task' = Released(w)
    /\ pc' = [pc EXCEPT ![w] = "idle"]
    /\ loc' = [loc EXCEPT ![w] = NoLocals]
    /\ hist' = AfterWorkerWrite(hist, task', results)
    /\ UNCHANGED <<articles, results>>
    /\ NormUnchanged
    /\ ApiUnchanged

WorkerStep(w) ==
    \/ WorkerPoll(w)
    \/ Acquire(w)
    \/ LoadTask(w)
    \/ CountArticles(w)
    \/ Setup(w)
    \/ Check1(w)
    \/ LlmAnswer(w)
    \/ LlmFail(w)
    \/ Check2(w)
    \/ SaveResult(w)
    \/ UpdateProgress(w)
    \/ Finalize(w)
    \/ MarkNoArticles(w)
    \/ MarkBatchError(w)
    \/ Release(w)

\* ------------------------------------------------ api/routes/tasks.py
\* create_task: insert the task document
CreateTask ==
    /\ task.status = "none"
    /\ \E d \in 1..MaxArticles :
          task' = [NoTask EXCEPT !.status = "running", !.total = d]
    /\ UNCHANGED <<articles, results, pc, loc, hist>>
    /\ NormUnchanged
    /\ ApiUnchanged

\* the update both except branches of start_screening run
AttachErrorDoc ==
    IF task.status = "none" THEN task
    ELSE [task EXCEPT !.status = "error", !.error = ErrAttach, !.completedAt = TRUE]

\* start_screening: read the task; a missing task or a status other than
\* running ("rejected") and an empty article list ("err2") raise
\* HTTPException inside the outer try, whose except branch marks the task as
\* error.
AttachRead ==
    /\ attachCall.pc = "idle"
    /\ task.status # "none"      \* the id comes from create_task's response
    /\ \E k \in 0..(MaxArticles - articles) :
          attachCall' = IF task.status # "running" THEN [pc |-> "rejected", k |-> 0]
                        ELSE IF k = 0 THEN [pc |-> "err2", k |-> 0]
                        ELSE [pc |-> "insert", k |-> k]
    /\ UNCHANGED <<task, articles, results, pc, loc, cancelCall, rfsCall, getCall, hist>>
    /\ NormUnchanged

\* start_screening: insert_many
AttachInsert ==
    /\ attachCall.pc = "insert"
    /\ articles' = articles + attachCall.k
    /\ attachCall' = [attachCall EXCEPT !.pc = "verify"]
    /\ UNCHANGED <<task, results, pc, loc, cancelCall, rfsCall, getCall, hist>>
    /\ NormUnchanged

\* start_screening: saved_count = count_documents; a mismatch raises
AttachVerify ==
    /\ attachCall.pc = "verify"
    /\ attachCall' = IF articles # attachCall.k THEN [pc |-> "err1", k |-> 0]
                     ELSE IdleAttach
    /\ UNCHANGED <<task, articles, results, pc, loc, cancelCall, rfsCall, getCall, hist>>
    /\ NormUnchanged

\* start_screening: inner except ("Rollback on error"), then re-raise
AttachErr1 ==
    /\ attachCall.pc = "err1"
    /\ task' = AttachErrorDoc
    /\ attachCall' = [attachCall EXCEPT !.pc = "err2"]
    /\ hist' = TrackPause(hist, task')
    /\ UNCHANGED <<articles, results, pc, loc, cancelCall, rfsCall, getCall>>
    /\ NormUnchanged

\* start_screening: outer except ("Ensure task is marked as error")
AttachErr2 ==
    /\ attachCall.pc \in {"rejected", "err2"}
    /\ task' = AttachErrorDoc
    /\ attachCall' = IdleAttach
    /\ hist' = TrackPause(hist, task')
    /\ UNCHANGED <<articles, results, pc, loc, cancelCall, rfsCall, getCall>>
    /\ NormUnchanged

\* cancel_task: an HTTPException raised inside the try block is caught by
\* "except Exception" and re-raised as HTTPException(500)
CancelRaised(code) == "r500"

\* cancel_task: read the task and check that it can be cancelled
CancelRead ==
    /\ cancelCall = "idle"
    /\ cancelCall' = IF task.status = "none" THEN CancelRaised("404")
                      ELSE IF task.status \in {"done", "error"} THEN CancelRaised("400")
                      ELSE "cas"
    /\ UNCHANGED <<task, articles, results, pc, loc, attachCall, rfsCall, getCall, hist>>
    /\ NormUnchanged

\* cancel_task's find_one_and_update filter
CancelFilter ==
    task.status \notin {"none", "done", "error"}

\* the batch a worker has in flight: selected and not yet fully saved
InFlightOffset(w) ==
    IF pc[w] \in {"llm", "check2", "save"} THEN loc[w].tp ELSE -1

\* cancel_task: find_one_and_update
CancelCas ==
    /\ cancelCall = "cas"
    /\ cancelCall' = IF CancelFilter THEN "r200" ELSE CancelRaised("409")
    /\ IF CancelFilter
       THEN /\ task' = [task EXCEPT !.status = "error", !.error = ErrCancelled,
                                    !.completedAt = TRUE]
            /\ hist' = [TrackPause(hist, task') EXCEPT
                          !.cancelled = TRUE,
                          !.cancelledProc = \E w \in Workers : loc[w].acq,
                          !.inflight = [w \in Workers |-> InFlightOffset(w)],
                          !.late = [w \in Workers |-> {}]]
       ELSE UNCHANGED <<task, hist>>
    /\ UNCHANGED <<articles, results, pc, loc, attachCall, rfsCall, getCall>>
    /\ NormUnchanged

\* cancel_task: the response reaches the caller
CancelReturn ==
    /\ cancelCall \in {"r200", "r500"}
    /\ cancelCall' = "idle"
    /\ UNCHANGED <<task, articles, results, pc, loc, attachCall, rfsCall, getCall, hist>>
    /\ NormUnchanged

\* request_full_screening: find_one({_id, status: paused}); an empty
\* remainingArticles list is rejected before the write
RfsRead ==
    /\ rfsCall.pc = "idle"
    /\ task.status = "paused"
    /\ \E k \in 1..(MaxArticles - ARTICLE_LIMIT) :
          rfsCall' = [pc |-> "write", cur |-> task.cur, total |-> task.total, k |-> k]
    /\ UNCHANGED <<task, articles, results, pc, loc, attachCall, cancelCall, getCall, hist>>
    /\ NormUnchanged

\* request_full_screening: update_one, filter on _id only
RfsDoc ==
    [task EXCEPT !.status = "full_screening", !.error = ErrNone,
                 !.remaining = <<"ids", rfsCall.k>>,
                 !.cur = rfsCall.cur, !.total = rfsCall.total]

RfsWrite ==
    /\ rfsCall.pc = "write"
    /\ task' = RfsDoc
    /\ rfsCall' = IdleRfs
    /\ hist' = TrackPause(hist, task')
    /\ UNCHANGED <<articles, results, pc, loc, attachCall, cancelCall, getCall>>
    /\ NormUnchanged

\* get_task: find_one of the task
GetRead ==
    /\ getCall.pc = "idle"
    /\ task.status # "none"
    /\ getCall' = [pc |-> "count", cur |-> task.cur, cnt |-> 0]
    /\ hist' = [hist EXCEPT !.gclean = TRUE, !.quiet = "open"]
    /\ UNCHANGED <<task, articles, results, pc, loc, attachCall, cancelCall, rfsCall>>
    /\ NormUnchanged

\* get_task: processed_count = count_documents(screening_results); when it
\* equals the progress read before, the handler returns without a write
GetCount ==
    /\ getCall.pc = "count"
    /\ LET c == Cardinality(results)
       IN IF getCall.cur # c
          THEN /\ getCall' = [getCall EXCEPT !.pc = "write", !.cnt = c]
               /\ hist' = hist
          ELSE /\ getCall' = IdleGet
               /\ hist' = [hist EXCEPT !.healed = hist.gclean, !.gclean = FALSE,
                                       !.quiet = IF @ = "open" THEN "same" ELSE "no"]
    /\ UNCHANGED <<task, articles, results, pc, loc, attachCall, cancelCall, rfsCall>>
    /\ NormUnchanged

\* get_task's update writing the count to progress.total
HealedDocTotal ==
    [task EXCEPT !.total = getCall.cnt]

\* get_task: "Update task with correct progress", filter on _id only
HealedDoc ==
    [task EXCEPT !.cur = getCall.cnt]

GetWrite ==
    /\ getCall.pc = "write"
    /\ task' = HealedDoc
    /\ getCall' = IdleGet
    /\ hist' = [hist EXCEPT !.healed = hist.gclean, !.gclean = FALSE,
                            !.quiet = IF @ = "open" THEN "fixed" ELSE "no"]
    /\ UNCHANGED <<articles, results, pc, loc, attachCall, cancelCall, rfsCall>>
    /\ NormUnchanged

\* ------------------------------------------------- response normaliser
\* JSON values of an LLM record.  k is the Python type of the value; n is
\* the number it holds or spells, in hundredths; s is the text of a string,
\* "<num>" for a string float() parses and "<num>%" for the same with a
\* trailing percent sign.
Hundredths(n) == n * 100
score_threshold == 60

BoolVal(b) == [k |-> "bool", n |-> IF b THEN 1 ELSE 0, s |-> ""]
NumVal(n) == [k |-> "num", n |-> n, s |-> ""]
StrVal(s) == [k |-> "str", n |-> 0, s |-> s]
NumStr(n, s) == [k |-> "str", n |-> n, s |-> s]
NullVal == [k |-> "null", n |-> 0, s |-> ""]
Absent == [k |-> "absent", n |-> 0, s |-> ""]

\* float(v): ok is FALSE where Python raises ValueError or TypeError
PyFloat(v) ==
    CASE v.k = "num" -> [ok |-> TRUE, n |-> v.n]
      [] v.k = "bool" -> [ok |-> TRUE, n |-> Hundredths(v.n)]
      [] v.k = "str" /\ v.s = "<num>" -> [ok |-> TRUE, n |-> v.n]
      [] OTHER -> [ok |-> FALSE, n |-> 0]

\* bool(v)
PyBool(v) ==
    CASE v.k = "bool" -> v.n = 1
      [] v.k = "num" -> v.n # 0
      [] v.k = "str" -> v.s # ""
      [] OTHER -> FALSE

\* s.lower() == "true"
LowerIsTrue(s) == s \in {"true", "True", "TRUE"}

\* s.replace('%', '').strip()
StripPercent(v) == IF v.s = "<num>%" THEN [v EXCEPT !.s = "<num>"] ELSE v

\* round(x, 1) on hundredths (the inputs have no tie)
Round1(n) == ((n + 5) \div 10) * 10

\* max(0, min(100, x))
Clamp(n) == IF n < 0 THEN 0 ELSE IF n > Hundredths(100) THEN Hundredths(100) ELSE n

SwapPrefix(reason, correct) ==
    IF reason = "Included:" /\ ~correct THEN "Excluded:"
    ELSE IF reason = "Excluded:" /\ correct THEN "Included:"
    ELSE reason

\* LLMService._validate_decisions on one record
ValidateDecisions(r) ==
    IF r.included.k = "absent" \/ r.score.k = "absent" THEN r
    ELSE LET f == PyFloat(r.score) IN
         IF ~f.ok THEN r
         ELSE LET score == Round1(f.n)
                  current == IF r.included.k = "str"
                             THEN LowerIsTrue(r.included.s)
                             ELSE PyBool(r.included)
                  correct == score >= Hundredths(score_threshold)
              IN  IF current # correct
                  THEN [r EXCEPT !.included = BoolVal(correct),
                                 !.reason = SwapPrefix(r.reason, correct)]
                  ELSE r

\* The required-fields check of _call_ollama
MissingFields(r) == r.included.k = "absent" \/ r.score.k = "absent"

\* The type coercion of _call_ollama on one record
CoerceIncluded(v) ==
    IF v.k = "str" THEN BoolVal(LowerIsTrue(v.s))
    ELSE IF v.k = "bool" THEN v
    ELSE BoolVal(PyBool(v))

CoerceScore(v) ==
    LET f == IF v.k = "str" THEN PyFloat(StripPercent(v)) ELSE PyFloat(v)
    IN  NumVal(Clamp(IF f.ok THEN f.n ELSE 0))

CoerceFields(r) ==
    [r EXCEPT !.included = CoerceIncluded(r.included),
              !.score = CoerceScore(r.score)]

\* TaskProcessor._screen_batch on one record of the parsed response
ScreenBatchRecord(r) ==
    LET included == IF r.included.k \in {"null", "absent"} THEN FALSE
                    ELSE PyBool(r.included)
        f == IF r.score.k = "absent" THEN [ok |-> TRUE, n |-> 0]
             ELSE PyFloat(r.score)
    IN  [r EXCEPT !.included = BoolVal(included),
                  !.score = NumVal(Clamp(f.n))]

\* The document TaskProcessor.process upserts into screening_results
ResultDoc(r) ==
    [r EXCEPT !.included = BoolVal(PyBool(r.included)),
              !.score = NumVal(PyFloat(r.score).n)]

\* Scores the model's LLM writes, in hundredths
ScoreValues ==
    {0 - Hundredths(5), 0, Hundredths(40), 5994, 5996, Hundredths(60),
     Hundredths(100), Hundredths(150)}

IncludedForms ==
    {BoolVal(TRUE), BoolVal(FALSE), StrVal("true"), StrVal("True"),
     StrVal("false"), StrVal("yes"), NullVal, Absent}

ScoreForms ==
    {NumVal(n) : n \in ScoreValues}
      \cup {NumStr(n, "<num>") : n \in ScoreValues}
      \cup {NumStr(n, "<num>%") : n \in ScoreValues}
      \cup {StrVal("high"), NullVal, Absent}

ReasonForms == {"Included:", "Excluded:", "free text"}

LlmRecords ==
    [included : IncludedForms, reason : ReasonForms, score : ScoreForms]

NoRec == [included |-> Absent, reason |-> "", score |-> Absent]

EngineUnchanged ==
    UNCHANGED <<task, articles, results, pc, loc, attachCall, cancelCall,
                rfsCall, getCall, hist>>

\* _call_ollama: json_data = self._validate_decisions(json_data)
NormValidate ==
    /\ normPc = "extracted"
    /\ normRec' = ValidateDecisions(normRec)
    /\ normPc' = "validated"
    /\ EngineUnchanged
    /\ UNCHANGED <<llm, svc, coll, stop, pt>>

\* _call_ollama: a missing required field raises ValueError, the batch fails
NormReject ==
    /\ normPc = "validated"
    /\ MissingFields(normRec)
    /\ normPc' = "rejected"
    /\ UNCHANGED normRec
    /\ EngineUnchanged
    /\ UNCHANGED <<llm, svc, coll, stop, pt>>

\* _call_ollama: field coercion and clamp, then json.dumps
NormCoerce ==
    /\ normPc = "validated"
    /\ ~MissingFields(normRec)
    /\ normRec' = CoerceFields(normRec)
    /\ normPc' = "coerced"
    /\ EngineUnchanged
    /\ UNCHANGED <<llm, svc, coll, stop, pt>>

\* _screen_batch: json.loads and the validated_results entry
NormScreen ==
    /\ normPc = "coerced"
    /\ normRec' = ScreenBatchRecord(normRec)
    /\ normPc' = "screened"
    /\ EngineUnchanged
    /\ UNCHANGED <<llm, svc, coll, stop, pt>>

\* process: the upsert of the result document
NormSave ==
    /\ normPc = "screened"
    /\ normRec' = ResultDoc(normRec)
    /\ normPc' = "stored"
    /\ EngineUnchanged
    /\ UNCHANGED <<llm, svc, coll, stop, pt>>

\* ------------------------------------------------------- LLM client
\* The two clients of the repository: LLMService (api/services/llm.py), which
\* the screening service uses, and the function call_ollama
\* (api/services/llm_part/ollama_call.py).
max_retries == 2

Clients == {"LLMService", "call_ollama"}

\* How one HTTP attempt can end.  An error response (4xx, 5xx) carries an
\* error body, not a chat message.
HttpOutcomes ==
    {"ok",            \* 200 with a message whose content holds valid decisions
     "timeout",       \* httpx.TimeoutException
     "connect",       \* any other transport error
     "404", "4xx", "5xx",
     "notjson",       \* 200, response.json() fails
     "nomessage",     \* 200, no 'message' in the body
     "empty",         \* 200, empty content
     "noextract",     \* 200, _extract_json finds nothing
     "badfields"}     \* 200, a record that is no dict or misses a field

\* the outcomes after which the client sleeps and continues its loop:
\* _call_ollama after a 404 and after a timeout, call_ollama after every
\* exception
Retried(c) ==
    IF c = "LLMService" THEN {"404", "timeout"} ELSE HttpOutcomes \ {"ok"}

\* _call_ollama: asyncio.sleep(10 * (attempt + 1)) after a 404,
\* (1 * (attempt + 1)) after a timeout; call_ollama: 10 * (attempt + 1)
Backoff(c, o, attempt) ==
    IF c = "LLMService" /\ o = "timeout" THEN attempt + 1 ELSE 10 * (attempt + 1)

IdleLlm ==
    [client |-> "none",    \* the client that runs the call
     pc |-> "idle",        \* idle, post, sleep, ok (a value is returned),
                           \* failed (an exception is raised), cancelled
     ret |-> "none",       \* the value returned: none, decisions, processing
     cancelled |-> FALSE,  \* self._cancelled
     attempt |-> 0,        \* loop variable of _call_ollama
     posts |-> 0,          \* HTTP requests sent by this call
     last |-> "none",      \* how the last attempt ended
     outs |-> <<>>,        \* how the attempts of this call ended, in order
     slept |-> <<>>]       \* the back-off sleeps of this call, in seconds

\* generate_response up to the first post: _cancelled = False, initialize,
\* the request lock, the task running _call_ollama; call_ollama up to its
\* first post
LlmCall ==
    /\ llm.pc = "idle"
    /\ \E c \in Clients :
          llm' = [IdleLlm EXCEPT !.client = c, !.pc = "post",
                                 !.cancelled = IF c = "LLMService" THEN FALSE
                                               ELSE llm.cancelled]
    /\ EngineUnchanged
    /\ UNCHANGED <<normPc, normRec, svc, coll, stop, pt>>

\* the client after the post of one attempt has ended with outcome o.
\* _call_ollama raises when no retry is left or the failure is not retried;
\* call_ollama returns the placeholder {"status": "processing"} when its
\* last attempt has failed.
AfterAttempt(o) ==
    LET again == o \in Retried(llm.client) /\ llm.attempt < max_retries
    IN [llm EXCEPT
          !.posts = @ + 1,
          !.last = o,
          !.outs = Append(@, o),
          !.pc = IF again THEN "sleep"
                 ELSE IF o = "ok" \/ llm.client = "call_ollama" THEN "ok"
                 ELSE "failed",
          !.ret = IF again THEN @
                  ELSE IF o = "ok" THEN "decisions"
                  ELSE IF llm.client = "call_ollama" THEN "processing"
                  ELSE @,
          !.slept = IF again THEN Append(@, Backoff(llm.client, o, llm.attempt))
                    ELSE @]

\* await of the post of one attempt and the handling of its result
LlmPost ==
    /\ llm.pc = "post"
    /\ \E o \in HttpOutcomes : llm' = AfterAttempt(o)
    /\ EngineUnchanged
    /\ UNCHANGED <<normPc, normRec, svc, coll, stop, pt>>

\* the back-off sleep ends, continue with the next attempt
LlmWake ==
    /\ llm.pc = "sleep"
    /\ llm' = [llm EXCEPT !.pc = "post", !.attempt = @ + 1]
    /\ EngineUnchanged
    /\ UNCHANGED <<normPc, normRec, svc, coll, stop, pt>>

\* LLMService.cancel: sets _cancelled and cancels the task of a call that is
\* waiting in the post or in the sleep.  call_ollama has no flag: the
\* cancellation of its caller raises CancelledError in the post or the sleep.
LlmCancel ==
    /\ llm' = [llm EXCEPT !.cancelled = IF llm.client = "call_ollama" THEN @ ELSE TRUE,
                          !.pc = IF @ \in {"post", "sleep"} THEN "cancelled" ELSE @]
    /\ llm' # llm
    /\ EngineUnchanged
    /\ UNCHANGED <<normPc, normRec, svc, coll, stop, pt>>

\* the call returns its value or raises (generate_response: finally cleanup)
LlmReturn ==
    /\ llm.pc \in {"ok", "failed", "cancelled"}
    /\ llm' = [IdleLlm EXCEPT !.cancelled = llm.cancelled]
    /\ EngineUnchanged
    /\ UNCHANGED <<normPc, normRec, svc, coll, stop, pt>>

\* ------------------------------------- LLMService shared by callers
\* generate_response of one LLMService instance called by NumCallers
\* coroutines: the client of initialize / cleanup, the request lock and each
\* caller's position.
NumCallers == 2
Callers == 1..NumCallers

IdleCaller ==
    [pc |-> "idle",     \* idle, wait (for the lock), start (task created),
                        \* post, sleep, closing (in cleanup's aclose)
     attempt |-> 0,     \* loop variable of _call_ollama
     res |-> "none"]    \* how the last call ended: ok, error, or clientClosed
                        \* when it failed on a closed or missing client

IdleSvc ==
    [client |-> "none", \* self._client: none, open, closed (aclose started)
     lock |-> 0,        \* holder of self._request_lock, 0 when free
     call |-> [c \in Callers |-> IdleCaller]]

\* initialize: a client is created only when self._client is None
Initialized(cl) == IF cl = "none" THEN "open" ELSE cl

\* generate_response up to its first suspension: initialize, then the lock;
\* with the lock free the task running _call_ollama is created
GenStart(c) ==
    /\ svc.call[c].pc = "idle"
    /\ svc' = [svc EXCEPT
                 !.client = Initialized(@),
                 !.lock = IF @ = 0 THEN c ELSE @,
                 !.call[c] = [IdleCaller EXCEPT
                                 !.pc = IF svc.lock = 0 THEN "start" ELSE "wait"]]
    /\ EngineUnchanged
    /\ UNCHANGED <<normPc, normRec, llm, coll, stop, pt>>

\* async with self._request_lock: the waiter gets the lock, creates the task
GenAcquire(c) ==
    /\ svc.call[c].pc = "wait"
    /\ svc.lock = 0
    /\ svc' = [svc EXCEPT !.lock = c, !.call[c].pc = "start"]
    /\ EngineUnchanged
    /\ UNCHANGED <<normPc, normRec, llm, coll, stop, pt>>

\* the end of a call: _current_task = None, the lock is released, and
\* cleanup runs up to its await of aclose (which closes the client); without
\* a client cleanup does nothing and the call has returned
Finished(c, r) ==
    [svc EXCEPT
        !.lock = 0,
        !.client = IF @ = "none" THEN @ ELSE "closed",
        !.call[c] = [@ EXCEPT !.res = r,
                              !.pc = IF svc.client = "none" THEN "idle"
                                     ELSE "closing"]]

\* _call_ollama starts: "HTTP client not initialized" without a client; the
\* post on a closed client raises; otherwise the request is in flight
GenBegin(c) ==
    /\ svc.call[c].pc = "start"
    /\ svc' = IF svc.client = "open"
              THEN [svc EXCEPT !.call[c].pc = "post"]
              ELSE Finished(c, "clientClosed")
    /\ EngineUnchanged
    /\ UNCHANGED <<normPc, normRec, llm, coll, stop, pt>>

\* the post of one attempt ends: a valid answer, a failure that is retried
\* (404, timeout) with attempts left, or a failure that ends the call
GenPost(c) ==
    /\ svc.call[c].pc = "post"
    /\ \E o \in {"ok", "retried", "error"} :
          svc' = IF svc.client # "open" THEN Finished(c, "clientClosed")
                 ELSE IF o = "retried" /\ svc.call[c].attempt < max_retries
                      THEN [svc EXCEPT !.call[c].pc = "sleep"]
                 ELSE Finished(c, IF o = "ok" THEN "ok" ELSE "error")
    /\ EngineUnchanged
    /\ UNCHANGED <<normPc, normRec, llm, coll, stop, pt>>

\* the back-off sleep ends and the next attempt is posted
GenWake(c) ==
    /\ svc.call[c].pc = "sleep"
    /\ svc' = IF svc.client = "open"
              THEN [svc EXCEPT !.call[c].pc = "post", !.call[c].attempt = @ + 1]
              ELSE Finished(c, "clientClosed")
    /\ EngineUnchanged
    /\ UNCHANGED <<normPc, normRec, llm, coll, stop, pt>>

\* cleanup after aclose: self._client = None; generate_response returns
GenClosed(c) ==
    /\ svc.call[c].pc = "closing"
    /\ svc' = [svc EXCEPT !.client = "none", !.call[c].pc = "idle"]
    /\ EngineUnchanged
    /\ UNCHANGED <<normPc, normRec, llm, coll, stop, pt>>

\* ------------------------------------- screening_results, one identity
\* The documents of screening_results with one (taskId, articleId) and the
\* writers that save a decision for that article: update_one with the filter
\* {taskId, articleId}, $set doc and upsert=True.  The repository creates no
\* index on screening_results, so the store runs an upsert as a query
\* followed by an update of the matched document or by an insert, and other
\* operations on the collection run between the two.
\* normalised decisions: included and relevanceScore (the reason follows them)
Decisions == [included : BOOLEAN, relevanceScore : {0, 100}]

NoDecision == [included |-> FALSE, relevanceScore |-> -1]

IdleWriter == [pc |-> "idle", d |-> NoDecision, found |-> FALSE]

NoColl ==
    [docs |-> <<>>,     \* the stored decisions, one entry per document
     wr |-> [w \in Workers |-> IdleWriter]]

\* the result save loop reaches its update_one: the query phase of the upsert
UpsertQuery(w) ==
    /\ coll.wr[w].pc = "idle"
    /\ \E d \in Decisions :
          coll' = [coll EXCEPT !.wr[w] = [pc |-> "write", d |-> d,
                                          found |-> coll.docs # <<>>]]
    /\ EngineUnchanged
    /\ UNCHANGED <<normPc, normRec, llm, svc, stop, pt>>

\* the write phase: $set on the first matching document, or an insert when
\* the query matched none
Upserted(docs, d, found) ==
    IF found /\ docs # <<>> THEN [docs EXCEPT ![1] = d] ELSE Append(docs, d)

UpsertWrite(w) ==
    /\ coll.wr[w].pc = "write"
    /\ coll' = [coll EXCEPT !.docs = Upserted(@, coll.wr[w].d, coll.wr[w].found),
                            !.wr[w] = IdleWriter]
    /\ EngineUnchanged
    /\ UNCHANGED <<normPc, normRec, llm, svc, stop, pt>>

\* ----------------------------------------------------- Worker.stop
\* stop() of worker 1 while its process call may be in flight.  A position
\* pc[1] is the store operation process is awaiting; TaskProcessor.cancel
\* does not undo an operation that is already awaited, it makes the checks of
\* self._cancelled that follow it end the pass.
ErrStopped == "Worker stopped"

NoStop ==
    [pc |-> "off",        \* off, cleanup, update, returned; dead: process killed
     flag |-> FALSE,      \* TaskProcessor._cancelled
     found |-> FALSE,     \* the task was in _processing_tasks
     loop |-> "poll",     \* Worker.start: poll, pass (in process), raised
     errs |-> 0,          \* Worker._error_counts.get(task_id, 0)
     at |-> <<"idle", NoLocals>>]  \* what process awaited when cancel ran

\* the positions process reaches only through a check of self._cancelled
Checked == {"check1", "llm", "check2", "save", "progress", "finalize"}

\* the operation process awaited when cancel() ran is still pending; the
\* batch task (llm) is cancelled by cancel() itself
Pending == <<pc[1], loc[1]>> = stop.at /\ pc[1] # "llm"

\* stop(): _shutdown.set(), then the await of the LLM client's cleanup
StopBegin ==
    /\ stop.pc = "off"
    /\ stop' = [stop EXCEPT !.pc = "cleanup"]
    /\ EngineUnchanged
    /\ UNCHANGED <<normPc, normRec, llm, svc, coll, pt>>

\* stop(): for the task in _processing_tasks: task_processor.cancel(), then
\* the await of the update; with no task in progress stop returns
StopCancel ==
    /\ stop.pc = "cleanup"
    /\ stop' = IF pc[1] = "idle"
               THEN [stop EXCEPT !.pc = "returned"]
               ELSE [stop EXCEPT !.pc = "update", !.flag = TRUE, !.found = TRUE,
                                 !.at = <<pc[1], loc[1]>>]
    /\ EngineUnchanged
    /\ UNCHANGED <<normPc, normRec, llm, svc, coll, pt>>

\* stop(): the update to error / "Worker stopped" (filter on _id only)
StopUpdate ==
    /\ stop.pc = "update"
    /\ task' = [task EXCEPT !.status = "error", !.error = ErrStopped,
                            !.completedAt = TRUE]
    /\ stop' = [stop EXCEPT !.pc = "returned"]
    /\ hist' = TrackPause(hist, task')
    /\ UNCHANGED <<articles, results, pc, loc, normPc, normRec, llm, svc, coll, pt>>
    /\ ApiUnchanged

\* process sees self._cancelled at the check in front of its next operation
\* (or the cancelled batch task raises CancelledError) and returns through
\* its finally block
StopObserved ==
    /\ stop.flag
    /\ pc[1] \in Checked
    /\ ~Pending
    /\ pc' = [pc EXCEPT ![1] = "release"]
    /\ UNCHANGED <<task, articles, results, loc, hist>>
    /\ NormUnchanged
    /\ ApiUnchanged

\* a step of worker 1 while stop() may run: no new process call after
\* _shutdown is set, and after cancel() only operations that are pending or
\* lie behind no check of self._cancelled
WorkerStepStop ==
    /\ (pc[1] = "idle") => stop.pc = "off"
    /\ (stop.flag /\ pc[1] \in Checked) => Pending
    /\ WorkerStep(1)

\* The process of worker 1 is killed while it holds the processingLock of a
\* running task: none of its code runs any more, its finally blocks included.
Die ==
    /\ stop.pc = "off"
    /\ HoldsLock(1) /\ task.status = "running"
    /\ stop' = [stop EXCEPT !.pc = "dead"]
    /\ EngineUnchanged
    /\ UNCHANGED <<normPc, normRec, llm, svc, coll, pt>>

\* ------------------------------------------------ Worker.start, errors
\* The loop of worker 1 with its per-task error counter.  process swallows
\* every Exception, so a pass raises only where Worker.start itself awaits:
\* the double check find_one (or initialize); a store update may raise too.
MAX_TASK_ATTEMPTS == 3

TooManyErrorsLate(n) == n > MAX_TASK_ATTEMPTS

\* if self._error_counts.get(task_id, 0) >= 3
TooManyErrors(n) == n >= MAX_TASK_ATTEMPTS

\* the poll found the task, the counter is below the cap, the double check
\* passed: process(task_id) begins
LoopStart ==
    /\ stop.loop = "poll" /\ pc[1] = "idle"
    /\ task.status \in {"running", "full_screening"}
    /\ ~TooManyErrors(stop.errs)
    /\ pc' = [pc EXCEPT ![1] = "acquire"]
    /\ stop' = [stop EXCEPT !.loop = "pass"]
    /\ UNCHANGED <<task, articles, results, loc, hist,
                   normPc, normRec, llm, svc, coll, pt>>
    /\ ApiUnchanged

\* the steps of process(task_id)
LoopPass ==
    /\ stop.loop = "pass" /\ pc[1] # "idle"
    /\ WorkerStep(1)

\* process returned: self._error_counts.pop(task_id, None)
LoopReturn ==
    /\ stop.loop = "pass" /\ pc[1] = "idle"
    /\ stop' = [stop EXCEPT !.loop = "poll", !.errs = 0]
    /\ EngineUnchanged
    /\ UNCHANGED <<normPc, normRec, llm, svc, coll, pt>>

\* the double check raised: the except branch counts the attempt
LoopRaise ==
    /\ stop.loop = "poll" /\ pc[1] = "idle"
    /\ task.status \in {"running", "full_screening"}
    /\ ~TooManyErrors(stop.errs)
    /\ stop' = [stop EXCEPT !.loop = "raised", !.errs = @ + 1]
    /\ EngineUnchanged
    /\ UNCHANGED <<normPc, normRec, llm, svc, coll, pt>>

\* _mark_task_failed (counter at the cap: from the poll or from the except
\* branch) or the except branch's "Attempt n" update; stored = FALSE is the
\* update raising, which _mark_task_failed swallows before its pop
LoopMark ==
    /\ pc[1] = "idle"
    /\ \/ stop.loop = "raised"
       \/ /\ stop.loop = "poll" /\ TooManyErrors(stop.errs)
          /\ task.status \in {"running", "full_screening"}
    /\ \E stored \in BOOLEAN :
          /\ task' = IF stored
                     THEN [task EXCEPT !.status = "error", !.completedAt = TRUE,
                             !.error = IF TooManyErrors(stop.errs)
                                       THEN "Task failed permanently"
                                       ELSE "Attempt"]
                     ELSE task
          /\ stop' = [stop EXCEPT !.loop = "poll",
                        !.errs = IF stored /\ TooManyErrors(@) THEN 0 ELSE @]
    /\ hist' = TrackPause(hist, task')
    /\ UNCHANGED <<articles, results, pc, loc, normPc, normRec, llm, svc, coll, pt>>
    /\ ApiUnchanged

\* -------------------------------------- api/services/screening.py
\* ScreeningService.process_task on the task (test_backend.py calls it once
\* the articles are stored); the articles it loaded are 1..n and the batch at
\* index i is i+1 .. i+BATCH_SIZE.
IdlePt ==
    [pc |-> "idle", n |-> 0, i |-> 0,
     total_processed |-> 0, retry_count |-> 0, pend |-> {}]

\* find_one, the update to running and the load of all articles; then the
\* for loop over range(0, len(articles), batch_size)
PtStart ==
    /\ pt.pc = "idle"
    /\ task.status # "none"
    /\ task' = [task EXCEPT !.status = "running", !.error = ErrNone]
    /\ pt' = [IdlePt EXCEPT !.pc = IF articles > 0 THEN "screen" ELSE "done",
                            !.n = articles]
    /\ hist' = TrackPause(hist, task')
    /\ UNCHANGED <<articles, results, pc, loc, normPc, normRec, llm, svc, coll, stop>>
    /\ ApiUnchanged

\* await self._screen_batch: a response with decisions for the ids R, or an
\* exception: the except branch counts it and, up to MAX_RETRIES, goes on
\* with "continue", which in a for loop is the next batch; past MAX_RETRIES
\* it re-raises into the outer except, which marks the task as error
PtScreen ==
    /\ pt.pc = "screen"
    /\ LET batch == {a \in 1..pt.n : a > pt.i /\ a <= pt.i + BATCH_SIZE}
           next == pt.i + BATCH_SIZE
       IN \/ /\ \E S \in SUBSET batch, F \in {{}, (0..MaxArticles) \ batch} :
                   /\ S \cup F # {}
                   /\ pt' = [pt EXCEPT !.pend = S,
                               !.pc = IF S = {} THEN "progress" ELSE "save"]
             /\ UNCHANGED <<task, hist>>
          \/ /\ pt.retry_count < MAX_RETRIES
             /\ pt' = [pt EXCEPT !.retry_count = @ + 1, !.i = next,
                         !.pc = IF next < pt.n THEN "screen" ELSE "done"]
             /\ UNCHANGED <<task, hist>>
          \/ /\ pt.retry_count >= MAX_RETRIES
             /\ pt' = [pt EXCEPT !.retry_count = @ + 1, !.pc = "returned"]
             /\ task' = [task EXCEPT !.status = "error", !.error = ErrBatch,
                                     !.completedAt = TRUE]
             /\ hist' = TrackPause(hist, task')
    /\ UNCHANGED <<articles, results, pc, loc, normPc, normRec, llm, svc, coll, stop>>
    /\ ApiUnchanged

\* the upsert of one article of the batch that is in the response
PtSave ==
    /\ pt.pc = "save"
    /\ LET a == MinOf(pt.pend)
       IN /\ results' = results \cup {a}
          /\ pt' = [pt EXCEPT !.pend = @ \ {a}, !.total_processed = @ + 1,
                      !.pc = IF pt.pend = {a} THEN "progress" ELSE "save"]
    /\ UNCHANGED <<task, articles, pc, loc, hist, normPc, normRec, llm, svc, coll, stop>>
    /\ ApiUnchanged

\* "Update task progress", then the next batch
PtProgress ==
    /\ pt.pc = "progress"
    /\ task' = [task EXCEPT !.cur = pt.total_processed]
    /\ pt' = [pt EXCEPT !.i = @ + BATCH_SIZE,
                !.pc = IF pt.i + BATCH_SIZE < pt.n THEN "screen" ELSE "done"]
    /\ hist' = TrackPause(hist, task')
    /\ UNCHANGED <<articles, results, pc, loc, normPc, normRec, llm, svc, coll, stop>>
    /\ ApiUnchanged

\* "Mark task as complete"
PtDone ==
    /\ pt.pc = "done"
    /\ task' = [task EXCEPT !.status = "done", !.completedAt = TRUE,
                            !.cur = pt.total_processed]
    /\ pt' = [pt EXCEPT !.pc = "returned"]
    /\ hist' = TrackPause(hist, task')
    /\ UNCHANGED <<articles, results, pc, loc, normPc, normRec, llm, svc, coll, stop>>
    /\ ApiUnchanged

\* ------------------------------------------------------ specifications
Init ==
    /\ task = NoTask
    /\ articles = 0
    /\ results = {}
    /\ pc = [w \in Workers |-> "idle"]
    /\ loc = [w \in Workers |-> NoLocals]
    /\ attachCall = IdleAttach
    /\ cancelCall = "idle"
    /\ rfsCall = IdleRfs
    /\ getCall = IdleGet
    /\ hist = NoHist
    /\ normPc = "off"
    /\ normRec = NoRec
    /\ llm = IdleLlm
    /\ svc = IdleSvc
    /\ coll = NoColl
    /\ stop = NoStop
    /\ pt = IdlePt

Next ==
    \/ \E w \in Workers : WorkerStep(w)
    \/ CreateTask
    \/ AttachRead
    \/ AttachInsert
    \/ AttachVerify
    \/ AttachErr1
    \/ AttachErr2
    \/ CancelRead
    \/ CancelCas
    \/ CancelReturn
    \/ RfsRead
    \/ RfsWrite
    \/ GetRead
    \/ GetCount
    \/ GetWrite

Spec == Init /\ [][Next]_vars

\* The task after create_task and one start_screening call with n articles
\* (n = 0: start_screening has not run yet), the workers polling.
InitAttached ==
    /\ \E n \in 0..MaxArticles :
          /\ articles = n
          /\ task = [NoTask EXCEPT !.status = "running",
                                   !.total = IF n = 0 THEN 1 ELSE n]
    /\ results = {}
    /\ pc = [w \in Workers |-> "idle"]
    /\ loc = [w \in Workers |-> NoLocals]
    /\ attachCall = IdleAttach
    /\ cancelCall = "idle"
    /\ rfsCall = IdleRfs
    /\ getCall = IdleGet
    /\ hist = NoHist
    /\ normPc = "off"
    /\ normRec = NoRec
    /\ llm = IdleLlm
    /\ svc = IdleSvc
    /\ coll = NoColl
    /\ stop = NoStop
    /\ pt = IdlePt

\* Workers alone on an attached task
NextWorkers ==
    \E w \in Workers : WorkerStep(w)

SpecWorkers == InitAttached /\ [][NextWorkers]_vars

\* One worker on an attached task, the failures of each batch and the
\* foreign ids of the responses recorded
InitRetry ==
    /\ \E n \in 0..MaxArticles :
          /\ articles = n
          /\ task = [NoTask EXCEPT !.status = "running",
                                   !.total = IF n = 0 THEN 1 ELSE n]
    /\ results = {}
    /\ pc = [w \in Workers |-> "idle"]
    /\ loc = [w \in Workers |-> NoLocals]
    /\ attachCall = IdleAttach
    /\ cancelCall = "idle"
    /\ rfsCall = IdleRfs
    /\ getCall = IdleGet
    /\ hist = [NoHist EXCEPT !.bf = [w \in Workers |-> 0],
                             !.extra = [w \in Workers |-> "no"]]
    /\ normPc = "off"
    /\ normRec = NoRec
    /\ llm = IdleLlm
    /\ svc = IdleSvc
    /\ coll = NoColl
    /\ stop = NoStop
    /\ pt = IdlePt

NextRetry == WorkerStep(1)

SpecRetry == InitRetry /\ [][NextRetry]_vars

\* Workers and cancel_task
NextCancel ==
    \/ \E w \in Workers : WorkerStep(w)
    \/ CancelRead
    \/ CancelCas
    \/ CancelReturn

SpecCancel == InitAttached /\ [][NextCancel]_vars

\* One worker and the control API on an attached task
NextSolo ==
    \/ WorkerStep(1)
    \/ CancelRead
    \/ CancelCas
    \/ CancelReturn
    \/ RfsRead
    \/ RfsWrite
    \/ GetRead
    \/ GetCount
    \/ GetWrite

SpecSolo == InitAttached /\ [][NextSolo]_vars

\* The same, the worker loop always getting to take its next step
SpecSoloFair == InitAttached /\ [][NextSolo]_vars /\ WF_vars(WorkerStep(1))

\* A worker step with an LLM that always answers
WorkerStepAnswered(w) ==
    \/ WorkerPoll(w)
    \/ Acquire(w)
    \/ LoadTask(w)
    \/ CountArticles(w)
    \/ Setup(w)
    \/ Check1(w)
    \/ LlmAnswer(w)
    \/ Check2(w)
    \/ SaveResult(w)
    \/ UpdateProgress(w)
    \/ Finalize(w)
    \/ MarkNoArticles(w)
    \/ Release(w)

\* Workers, create_task and start_screening
NextAttach ==
    \/ \E w \in Workers : WorkerStepAnswered(w)
    \/ CreateTask
    \/ AttachRead
    \/ AttachInsert
    \/ AttachVerify
    \/ AttachErr1
    \/ AttachErr2

SpecAttach == Init /\ [][NextAttach]_vars

\* A worker step with an LLM that answers every article of every batch
WorkerStepValid(w) ==
    \/ WorkerPoll(w)
    \/ Acquire(w)
    \/ LoadTask(w)
    \/ CountArticles(w)
    \/ Setup(w)
    \/ Check1(w)
    \/ LlmAnswerAll(w)
    \/ Check2(w)
    \/ SaveResult(w)
    \/ UpdateProgress(w)
    \/ Finalize(w)
    \/ MarkNoArticles(w)
    \/ Release(w)

\* One running worker, a valid LLM, request_full_screening and a client
\* polling get_task; the worker loop and the request_full_screening handler
\* always get to take their next step.
NextFull ==
    \/ WorkerStepValid(1)
    \/ RfsRead
    \/ RfsWrite
    \/ GetRead
    \/ GetCount
    \/ GetWrite

SpecFull ==
    /\ InitAttached
    /\ [][NextFull]_vars
    /\ WF_vars(WorkerStepValid(1))
    /\ WF_vars(RfsWrite)

\* One record of an LLM response from extraction to the stored document
InitNorm ==
    /\ task = NoTask
    /\ articles = 0
    /\ results = {}
    /\ pc = [w \in Workers |-> "idle"]
    /\ loc = [w \in Workers |-> NoLocals]
    /\ attachCall = IdleAttach
    /\ cancelCall = "idle"
    /\ rfsCall = IdleRfs
    /\ getCall = IdleGet
    /\ hist = NoHist
    /\ normPc = "extracted"
    /\ normRec \in LlmRecords
    /\ llm = IdleLlm
    /\ svc = IdleSvc
    /\ coll = NoColl
    /\ stop = NoStop
    /\ pt = IdlePt

NextNorm ==
    \/ NormValidate
    \/ NormReject
    \/ NormCoerce
    \/ NormScreen
    \/ NormSave

SpecNorm == InitNorm /\ [][NextNorm]_vars

\* One LLMService instance: generate_response calls and cancel
InitLlm ==
    /\ task = NoTask
    /\ articles = 0
    /\ results = {}
    /\ pc = [w \in Workers |-> "idle"]
    /\ loc = [w \in Workers |-> NoLocals]
    /\ attachCall = IdleAttach
    /\ cancelCall = "idle"
    /\ rfsCall = IdleRfs
    /\ getCall = IdleGet
    /\ hist = NoHist
    /\ normPc = "off"
    /\ normRec = NoRec
    /\ llm = IdleLlm
    /\ svc = IdleSvc
    /\ coll = NoColl
    /\ stop = NoStop
    /\ pt = IdlePt

NextLlm ==
    \/ LlmCall
    \/ LlmPost
    \/ LlmWake
    \/ LlmCancel
    \/ LlmReturn

SpecLlm == InitLlm /\ [][NextLlm]_vars

\* One LLMService instance called by NumCallers concurrent callers
NextShared ==
    \E c \in Callers :
        \/ GenStart(c)
        \/ GenAcquire(c)
        \/ GenBegin(c)
        \/ GenPost(c)
        \/ GenWake(c)
        \/ GenClosed(c)

SpecShared == InitLlm /\ [][NextShared]_vars

\* test_backend of test_api.py: the client's one start_screening call after
\* create_task, with n articles, 0 < n < ARTICLE_LIMIT
TestAttachRead ==
    /\ articles = 0
    /\ task.error # ErrAttach
    /\ AttachRead
    /\ attachCall'.pc = "rejected" \/ attachCall'.k \in 1..(ARTICLE_LIMIT - 1)

\* create_task, one start_screening call and get_task polls, with one
\* polling worker and an LLM that answers validly.  The worker loop and the
\* start_screening handler always get to take their next step, and the
\* client does make its start_screening call.
NextE2E ==
    \/ WorkerStepValid(1)
    \/ CreateTask
    \/ TestAttachRead
    \/ AttachInsert
    \/ AttachVerify
    \/ AttachErr2
    \/ GetRead
    \/ GetCount
    \/ GetWrite

SpecE2E ==
    /\ Init
    /\ [][NextE2E]_vars
    /\ WF_vars(WorkerStepValid(1))
    /\ WF_vars(TestAttachRead)
    /\ WF_vars(AttachInsert)
    /\ WF_vars(AttachVerify)
    /\ WF_vars(AttachErr2)

\* Worker 1 on an attached task and its stop()
NextStop ==
    \/ WorkerStepStop
    \/ StopBegin
    \/ StopCancel
    \/ StopUpdate
    \/ StopObserved

SpecStop == InitAttached /\ [][NextStop]_vars

\* Worker 1's loop with its error counter on an attached task
NextLoop ==
    \/ LoopStart
    \/ LoopPass
    \/ LoopReturn
    \/ LoopRaise
    \/ LoopMark

SpecLoop == InitAttached /\ [][NextLoop]_vars

\* Worker 1 may be killed holding the lock; worker 2 keeps polling
NextDeath ==
    \/ stop.pc # "dead" /\ WorkerStep(1)
    \/ Die
    \/ WorkerStep(2)

SpecDeath == InitAttached /\ [][NextDeath]_vars /\ WF_vars(WorkerStep(2))

\* Result writes for one article by the workers
NextUpsert ==
    \E w \in Workers :
        \/ UpsertQuery(w)
        \/ UpsertWrite(w)

SpecUpsert == InitLlm /\ [][NextUpsert]_vars

\* The same writes for article 1 of a running task of ARTICLE_LIMIT articles
\* that was never in full_screening; results holds the articles among the
\* others that have their document, coll.docs the documents of article 1.
InitStored ==
    /\ task = [NoTask EXCEPT !.status = "running", !.total = ARTICLE_LIMIT]
    /\ articles = ARTICLE_LIMIT
    /\ results \in SUBSET (2..ARTICLE_LIMIT)
    /\ pc = [w \in Workers |-> "idle"]
    /\ loc = [w \in Workers |-> NoLocals]
    /\ attachCall = IdleAttach
    /\ cancelCall = "idle"
    /\ rfsCall = IdleRfs
    /\ getCall = IdleGet
    /\ hist = NoHist
    /\ normPc = "off"
    /\ normRec = NoRec
    /\ llm = IdleLlm
    /\ svc = IdleSvc
    /\ coll = NoColl
    /\ stop = NoStop
    /\ pt = IdlePt

SpecStored == InitStored /\ [][NextUpsert]_vars

\* One call of process_task on a task with its articles stored
NextPt ==
    \/ PtStart
    \/ PtScreen
    \/ PtSave
    \/ PtProgress
    \/ PtDone

SpecPt == InitAttached /\ [][NextPt]_vars

\* ================================================================ claims

\* C1: no two workers are at the same instant inside the batch loop of
\* process() for the task.
C1_MutualExclusion ==
    \A w1, w2 \in Workers : (w1 # w2) => ~(InLoop(w1) /\ InLoop(w2))

\* C2: of two workers started on one eligible running task, the one whose
\* acquire_task_lock failed changes nothing on the task document when its
\* process() call returns.
C2_LoserChangesNothing ==
    [][\A w \in Workers :
          (pc[w] = "release" /\ ~loc[w].acq /\ pc'[w] = "idle") => task' = task]_vars

\* C3: once cancel_task has succeeded on a task a worker is processing, the
\* status is error and the error field is "Task cancelled by user" in every
\* later state.
C3_CancelSticks ==
    hist.cancelledProc => (task.status = "error" /\ task.error = ErrCancelled)

\* C4: after cancel_task succeeded, every result a worker writes belongs to
\* the one batch that worker had in flight at the moment of the cancel.
C4_AtMostInFlightBatch ==
    \A w \in Workers : \A a \in hist.late[w] :
        /\ hist.inflight[w] >= 0
        /\ a > hist.inflight[w]
        /\ a <= hist.inflight[w] + BATCH_SIZE

\* a worker has saved a result of its in-flight batch after the cancel
C4_Witness ==
    \E w \in Workers :
        /\ hist.cancelled
        /\ hist.inflight[w] >= 0
        /\ hist.late[w] # {}

\* C5: the stored progress.current never decreases while the status of the
\* task is not error.
C5_MonotonicProgress ==
    [][(task.status # "error" /\ task'.status # "error") => task'.cur >= task.cur]_vars

\* C6: whenever the task is paused, done or error and get_task has run after
\* the last worker write, the number of results equals progress.current.
C6_ResultProgressAgreement ==
    (task.status \in {"paused", "done", "error"} /\ hist.healed)
        => Cardinality(results) = task.cur

\* C7: a task that went from running to paused has progress.current equal to
\* min(ARTICLE_LIMIT, number of articles) for as long as it stays paused.
C7_CapEnforcement ==
    (task.status = "paused" /\ hist.viaRunning)
        => task.cur = Min(ARTICLE_LIMIT, articles)

\* C8: every stored screening result has included equal to
\* (relevance score >= 60) and a relevance score between 0 and 100, whatever
\* form the LLM gave the score and the decision.
C8_DecisionReconciliation ==
    normPc = "stored"
        => /\ normRec.included
                = BoolVal(normRec.score.n >= Hundredths(score_threshold))
           /\ normRec.score.n >= 0
           /\ normRec.score.n <= Hundredths(100)

\* C9: a paused task has completed_at absent, and progress.current >=
\* ARTICLE_LIMIT or a result for every one of its articles.
C9_PausedInvariant ==
    task.status = "paused"
        => /\ ~task.completedAt
           /\ (task.cur >= ARTICLE_LIMIT \/ results = 1..articles)

\* C10: a done task has completed_at set, no processing_lock, and
\* progress.current <= progress.total.
C10_DoneInvariant ==
    task.status = "done"
        => /\ task.completedAt
           /\ task.lock = NoLock
           /\ task.cur <= task.total

\* C11: a task in error has a non-empty error field, and no step increases
\* its progress.current while it stays in error.
C11_ErrorInvariant ==
    /\ [](task.status = "error" => task.error # ErrNone)
    /\ [][(task.status = "error" /\ task'.status = "error")
            => task'.cur <= task.cur]_vars

\* C12: a task with more articles than ARTICLE_LIMIT that was paused by the
\* initial pass has progress (ARTICLE_LIMIT, ARTICLE_LIMIT), remaining_articles
\* holding the ids of the articles beyond the cap, and no result beyond the cap.
C12_PausedAtCap ==
    (task.status = "paused" /\ hist.viaRunning /\ articles > ARTICLE_LIMIT)
        => /\ task.cur = ARTICLE_LIMIT
           /\ task.total = ARTICLE_LIMIT
           /\ task.remaining = <<"ids", articles - ARTICLE_LIMIT>>
           /\ \A a \in results : a <= ARTICLE_LIMIT

\* C13: once request_full_screening has moved the task to full_screening, a
\* running worker with a valid LLM eventually brings it to done with
\* progress.current equal to the number of articles and completed_at set.
C13_FullScreeningCompletes ==
    (task.status = "full_screening")
        ~> (task.status = "done" /\ task.cur = articles /\ task.completedAt)

\* C14: every change of the status of an existing task is one of
\* running->paused, running->done, running->error, paused->full_screening,
\* paused->error, full_screening->done, full_screening->error; a task in done
\* or error keeps its status.
C14_StatusTransitions ==
    [][LET allowed == {<<"running", "paused">>, <<"running", "done">>,
                       <<"running", "error">>, <<"paused", "full_screening">>,
                       <<"paused", "error">>, <<"full_screening", "done">>,
                       <<"full_screening", "error">>}
       IN  (task.status # "none" /\ task'.status # task.status)
               => <<task.status, task'.status>> \in allowed]_vars

\* C15: cancel_task that finds the task in done or error, at its read or at
\* its write, leaves the task document unchanged and answers 409.
C15_CancelConflict ==
    [][(cancelCall \in {"idle", "cas"} /\ cancelCall' # cancelCall
            /\ task.status \in {"done", "error"})
          => (task' = task /\ cancelCall' = "r409")]_vars

\* C16: start_screening on a task whose status is not running inserts no
\* article and leaves the task document unchanged.
C16_AttachFrame ==
    [][(attachCall.pc = "rejected" /\ attachCall' # attachCall)
          => (task' = task /\ articles' = articles)]_vars

\* C17: the write of request_full_screening changes the task only if its
\* status is paused at that moment; it then sets full_screening and the given
\* remaining ids and keeps progress.current and progress.total.
C17_ConditionalFullScreening ==
    [][(rfsCall.pc = "write" /\ rfsCall' # rfsCall)
          => IF task.status = "paused"
             THEN /\ task'.status = "full_screening"
                  /\ task'.remaining = <<"ids", rfsCall.k>>
                  /\ task'.cur = task.cur
                  /\ task'.total = task.total
             ELSE task' = task]_vars

\* C18: once get_task has returned with no concurrent writer, the stored
\* progress.current equals the number of results of the task, and no step of
\* get_task changes any other field of the task.
C18_GetTaskHeals ==
    /\ [](hist.quiet \in {"same", "fixed"} => task.cur = Cardinality(results))
    /\ [][(getCall' # getCall) => task' = [task EXCEPT !.cur = task'.cur]]_vars

\* get_task has repaired a wrong progress.current with no concurrent writer
C18_Witness ==
    /\ hist.quiet = "fixed"
    /\ getCall.pc = "idle"
    /\ results # {}

\* C19: the LLM client starts another attempt exactly when the previous
\* attempt ended in a timeout, a 5xx or a 404 and attempts remain; after any
\* other failure the call ends with an error.
C19_RetryPolicy ==
    [][(llm'.posts = llm.posts + 1)
          => /\ (llm'.pc = "sleep")
                   <=> (llm'.last \in {"timeout", "5xx", "404"}
                            /\ llm.attempt < max_retries)
             /\ (llm'.pc # "sleep" /\ llm'.last # "ok") => llm'.pc = "failed"]_vars

\* C20: one call makes at most max_retries + 1 HTTP attempts; when the
\* endpoint answers 404, 404 and then a valid 200, the call succeeds on the
\* third attempt after sleeps of 10 s and 20 s; when every attempt has
\* failed, the call ends with an error and never returns a value.
C20_BoundedRetry ==
    /\ llm.posts <= max_retries + 1
    /\ llm.outs = <<"404", "404", "ok">>
          => (llm.pc = "ok" /\ llm.ret = "decisions" /\ llm.slept = <<10, 20>>)
    /\ (llm.pc = "ok") => llm.last = "ok"
    /\ (llm.pc \notin {"idle", "post", "sleep"} /\ llm.last # "ok")
          => (llm.pc \in {"failed", "cancelled"} /\ llm.ret = "none")

\* C21: once LLMService.cancel has been called (before generate_response
\* starts, during an HTTP attempt or during a retry sleep), the call reports
\* cancellation and no further HTTP attempt is sent.
C21_CancelStopsAttempts ==
    [][(llm.cancelled /\ llm.client # "call_ollama" /\ llm'.client # "call_ollama")
          => /\ llm'.pc \in {"idle", "cancelled"} \/ llm'.pc = llm.pc
             /\ llm'.posts <= llm.posts
             /\ llm'.cancelled]_vars

\* C22: with one LLMService instance shared by concurrent callers at most
\* one HTTP request is in flight, and no caller's request fails because
\* another caller's cleanup has closed the client.
C22_SharedClient ==
    /\ Cardinality({c \in Callers : svc.call[c].pc = "post"}) <= 1
    /\ \A c \in Callers : svc.call[c].res # "clientClosed"

\* C23: within one pass the task is failed only when a single batch has
\* failed MAX_RETRIES + 1 times, however often earlier batches of the pass
\* failed before they succeeded.
C23_PerBatchRetryBudget ==
    [][\A w \in Workers :
          (pc[w] = "llm" /\ pc'[w] = "markErr") => hist'.bf[w] = MAX_RETRIES + 1]_vars

\* C24: after any sequence of result writes there is at most one
\* screening_results document per task and article, and writing the decision
\* the document already holds leaves the document unchanged.
C24_UpsertIdempotent ==
    /\ [](Len(coll.docs) <= 1)
    /\ [][\A w \in Workers :
            (coll.wr[w].pc = "write" /\ coll'.wr[w].pc = "idle"
                /\ coll.docs = <<coll.wr[w].d>>)
              => coll'.docs = coll.docs]_vars

\* C25: a task created by create_task and then given n articles
\* (0 < n < ARTICLE_LIMIT) by start_screening, with a worker polling and a
\* valid LLM, eventually reaches done with one result per article, and no
\* get_task poll reads it in error; also when the worker picks the task up
\* between the two calls.
C25_CreateAttachDone ==
    /\ [][(getCall.pc = "idle" /\ getCall'.pc # "idle") => task.status # "error"]_vars
    /\ (task.status # "none")
          ~> (task.status = "done" /\ articles \in 1..(ARTICLE_LIMIT - 1)
                /\ results = 1..articles)

\* C26: release_task_lock, also when run by the finally block of a process
\* call whose acquire_task_lock failed, clears processingLock only if the
\* stored value is the caller's own lock id; otherwise the task document
\* stays as it is.
C26_ReleaseOwnLockOnly ==
    [][\A w \in Workers :
          (pc[w] = "release" /\ pc'[w] = "idle")
            => task' = IF HoldsLock(w) THEN [task EXCEPT !.lock = NoLock] ELSE task]_vars

\* C27: a worker whose lock id is not the stored processingLock writes no
\* screening_results document and no progress update, whatever another
\* worker does to the lock between the lock check and the writes.
C27_NoWriteWithoutLock ==
    [][\A w \in Workers :
          /\ (pc[w] = "save" /\ loc'[w] # loc[w]) => HoldsLock(w)
          /\ (pc[w] = "progress" /\ pc'[w] # "progress" /\ task' # task) => HoldsLock(w)]_vars

\* C28: when the task's status changes to error (cancel_task) while a worker
\* is in the result save loop of a batch, the worker finishes the upsert it
\* is in and writes no further screening_results document of that batch.
C28_StopAfterCurrentArticle ==
    \A w \in Workers : Cardinality(hist.late[w]) <= 1

\* C29: an article that was sent in a batch and is absent from the LLM
\* response is sent again in a following batch of the pass: when the save
\* loop of a batch ends, every article of the batch that has no result lies
\* behind the new batch offset, where the following batches are taken from.
C29_MissingDecisionRetried ==
    [][\A w \in Workers :
          (pc[w] = "save" /\ pc'[w] = "progress")
            => \A a \in Batch(w) \ results' : a > loc'[w].tp]_vars

\* C30: whatever ids the LLM response holds, every screening_results
\* document a worker writes is for an article of the batch it sent.
C30_OnlyBatchIdsWritten ==
    [][\A w \in Workers :
          (pc[w] = "save" /\ loc'[w] # loc[w])
            => /\ (results' \ results) \subseteq Batch(w)
               /\ (loc[w].pend \ loc'[w].pend) \subseteq Batch(w)]_vars

\* a response with foreign ids has gone through the save loop
C30_Witness ==
    /\ hist.extra[1] = "yes"
    /\ pc[1] = "progress"
    /\ loc[1].tp > 0
    /\ results # {}

\* C31: when a pass starts on a task that already has screening_results,
\* the articles the pass loads to send to the LLM are articles without a
\* result.
C31_PlanSkipsScreened ==
    [][\A w \in Workers :
          (pc[w] = "count" /\ pc'[w] = "setup")
            => (1..loc'[w].atp) \cap results = {}]_vars

\* C32: when the batch failures of a pass exhaust the retry budget, process
\* sets the status to error with the error string and completedAt, the
\* worker writes no further result in that pass, and the results written
\* before stay stored.
C32_FailedPass ==
    [][/\ results \subseteq results'
       /\ \A w \in Workers :
            /\ (pc[w] = "markErr" /\ pc'[w] # "markErr")
                 => /\ task'.status = "error"
                    /\ task'.error = ErrBatch
                    /\ task'.completedAt
                    /\ results' = results
            /\ (pc[w] \in {"markErr", "release"})
                 => pc'[w] \in {"markErr", "release", "idle"}]_vars

\* a pass has failed after it had written results
C32_Witness ==
    /\ pc[1] = "release"
    /\ loc[1].rc > MAX_RETRIES
    /\ task.status = "error"
    /\ task.error = ErrBatch
    /\ results # {}

\* C33: on every exit path of a process call that acquired the lock, the
\* task's processingLock is not this worker's lock id when process returns.
C33_LockGoneAtReturn ==
    [][\A w \in Workers :
          (pc[w] = "release" /\ pc'[w] = "idle" /\ loc[w].acq)
            => task'.lock # w]_vars

\* a process call that acquired the lock is at its exit and still holds it
C33_Witness ==
    /\ pc[1] = "release"
    /\ loc[1].acq
    /\ HoldsLock(1)
    /\ task.status = "error"

\* C34: after stop() has returned and the process call that was in flight
\* has returned, the task that was in the worker's in-progress set has
\* status error with error "Worker stopped" and no processingLock.
C34_StoppedTasksMarked ==
    (stop.pc = "returned" /\ stop.found /\ pc[1] = "idle")
        => (task.status = "error" /\ task.error = ErrStopped /\ task.lock = NoLock)

\* C35: the worker never starts process on a task whose error counter has
\* reached 3: with the counter at the cap its step is the permanent-failure
\* mark (status error once the store takes the update) and no pass begins;
\* a pass that raised adds exactly one to the counter, and a pass that
\* returned without raising removes the counter.
C35_ErrorCounter ==
    [][/\ (pc[1] = "idle" /\ pc'[1] # "idle") => stop.errs < MAX_TASK_ATTEMPTS
       /\ (stop.loop = "poll" /\ stop.errs >= MAX_TASK_ATTEMPTS)
             => /\ pc'[1] = "idle"
                /\ \/ task'.status = "error" /\ task'.error = "Task failed permanently"
                   \/ task' = task /\ stop'.errs = stop.errs
       /\ (stop.loop = "poll" /\ stop'.loop = "raised") => stop'.errs = stop.errs + 1
       /\ (stop.loop = "pass" /\ stop'.loop = "poll") => stop'.errs = 0]_vars

C35_Witness ==
    /\ stop.loop = "poll" /\ stop.errs = MAX_TASK_ATTEMPTS
    /\ task.status = "running" /\ results # {}

\* C36: when worker 1 has died holding the processingLock of a running task,
\* the task is not parked: a polling worker eventually holds the lock in a
\* pass of its own (or the task has left running).
C36_DeadLockNotParked ==
    (stop.pc = "dead" /\ task.lock = 1 /\ task.status = "running")
        ~> ((task.lock = 2 /\ loc[2].acq) \/ task.status # "running")

C36_Witness ==
    stop.pc = "dead" /\ task.lock = 2 /\ loc[2].acq /\ pc[2] = "save"

\* C37: when a record whose reason begins with "Included:" or "Excluded:"
\* carries a decision that the reconciliation has to change (the decision as
\* _validate_decisions reads it differs from score >= threshold, the score
\* being a number, a numeric string or a numeric string with a trailing %),
\* the stored reason begins with the prefix of the stored included value.
C37_PrefixFollowsDecision ==
    [][(/\ normPc = "extracted" /\ normPc' = "validated"
        /\ normRec.reason \in {"Included:", "Excluded:"}
        /\ ~MissingFields(normRec)
        /\ LET num == PyFloat(StripPercent(normRec.score))
               current == IF normRec.included.k = "str"
                          THEN LowerIsTrue(normRec.included.s)
                          ELSE PyBool(normRec.included)
           IN  /\ num.ok
               /\ current # (Round1(num.n) >= Hundredths(score_threshold)))
         => LET stored == ResultDoc(ScreenBatchRecord(CoerceFields(normRec')))
            IN  stored.reason = IF stored.included = BoolVal(TRUE)
                                THEN "Included:" ELSE "Excluded:"]_vars

\* C38: every call of process returns: a pass that has begun reaches the
\* return of process, whatever ids the LLM responses hold.
C38_ProcessReturns ==
    (pc[1] = "acquire") ~> (pc[1] = "idle")

\* C39: a task that was never in full_screening has at most ARTICLE_LIMIT
\* screening_results documents: those of article 1 and those of the other
\* articles together.
C39_ResultCap ==
    Len(coll.docs) + Cardinality(results) <= ARTICLE_LIMIT

\* C40: when process_task has ended with status done, every article of the
\* task has a screening result and progress.current is the number of
\* articles.
C40_DoneMeansAllScreened ==
    (pt.pc = "returned" /\ task.status = "done")
        => (results = 1..articles /\ task.cur = articles)

====
